---- MODULE Spec2Model ----
(***************************************************************************)
(* Media-session observer/controller of the COVAS:NEXT media player        *)
(* plugin.  Three controller variants behind one facade:                   *)
(*   "mpris"       MPRISController.py  (poll loop on a worker thread)       *)
(*   "windows"     WindowsMediaController (native push notifications)      *)
(*   "placeholder" the stub MPRISController / MacOSMediaController          *)
(* and the host shim (MediaPlayerPlugin) that wires a controller to the     *)
(* host event bus.                                                          *)
(***************************************************************************)
EXTENDS Integers, Sequences, FiniteSets, TLC

\* ------------------------------------------------------------------ bounds
MaxPolls == 3      \* poll iterations that reach the platform read
MaxCalls == 2      \* control operations / state queries issued by callers
MaxNotify == 2     \* native notifications raised by the session manager

\* ------------------------------------------------------- optional values
None == <<>>
Some(v) == <<v>>

\* ------------------------------------------------- PlaybackState model
default_media_playback_state ==
    [artist |-> None, subtitle |-> None, title |-> None,
     is_shuffle_active |-> Some(FALSE), auto_repeat_mode |-> Some(FALSE),
     playback_status |-> None]

\* ---------------------------------------------- MPRIS platform snapshots
\* What one player answers to the property reads of one poll.  shuffle and
\* loop_status are None when the interface does not expose the property;
\* declared is the introspected wire type of Shuffle, actual the type of the
\* value the player really sends.
RawPlaying ==
    [fails |-> FALSE, artist |-> Some(<<"A", "B">>), album |-> Some("Al"),
     title |-> Some("T1"), shuffle |-> None, loop_status |-> None,
     playback_status |-> "Playing"]
RawPaused ==
    [fails |-> FALSE, artist |-> Some(<<"A">>), album |-> Some("Al"),
     title |-> Some("T1"),
     shuffle |-> Some([declared |-> "d", actual |-> "b", value |-> 1]),
     loop_status |-> Some("Track"), playback_status |-> "Paused"]
RawBroken ==
    [fails |-> TRUE, artist |-> None, album |-> None, title |-> None,
     shuffle |-> None, loop_status |-> None, playback_status |-> "Stopped"]
MprisRaws == {RawPlaying, RawPaused, RawBroken}

RECURSIVE JoinArtists(_)
JoinArtists(l) ==
    IF Len(l) = 1 THEN l[1] ELSE l[1] \o ", " \o JoinArtists(Tail(l))

\* bool(shuffle) of the value get_shuffle returned; value is the number on
\* the wire, a boolean true being 1.
ShuffleBool(s) == s.value # 0

\* The "Shuffle" signature fix: a property declared "d" is redeclared "b".
FixedSignature(s) == IF s.declared = "d" THEN "b" ELSE s.declared

\* The read raises when a platform call fails, when the proxy rejects a
\* Shuffle value whose type is not the (fixed) declared one, or when one of
\* xesam:artist / xesam:album / xesam:title is missing from the metadata
\* (the {"value": None} dict stand-in has no attribute .value).
ReadRaises(raw) ==
    \/ raw.fails
    \/ raw.shuffle # None /\ FixedSignature(raw.shuffle[1]) # raw.shuffle[1].actual
    \/ raw.artist = None
    \/ raw.album = None
    \/ raw.title = None

_get_media_playback_state(iface, raw) ==
    IF iface = None THEN default_media_playback_state
    ELSE IF ReadRaises(raw) THEN default_media_playback_state
    ELSE [artist |-> IF raw.artist[1] = <<>> THEN None
                     ELSE Some(JoinArtists(raw.artist[1])),
          subtitle |-> raw.album,
          title |-> raw.title,
          is_shuffle_active |-> IF raw.shuffle = None THEN None
                                ELSE Some(ShuffleBool(raw.shuffle[1])),
          auto_repeat_mode |-> IF raw.loop_status = None THEN None
                               ELSE Some(raw.loop_status[1] = "Track"),
          playback_status |-> Some(raw.playback_status)]

\* ---------------------------------------------- Windows platform snapshots
\* What one session answers to get_playback_info() and
\* try_get_media_properties_async().  has_props = FALSE: the properties
\* request yields None.  auto_repeat_mode is None or the name of a
\* MediaPlaybackAutoRepeatMode member.
EnumMember(name) == <<"MediaPlaybackAutoRepeatMode", name>>

WinRawA ==
    [has_props |-> TRUE, artist |-> "A", subtitle |-> "", title |-> "T1",
     is_shuffle_active |-> None, auto_repeat_mode |-> Some("NONE"),
     playback_status |-> "PLAYING"]
WinRawB ==
    [has_props |-> TRUE, artist |-> "A", subtitle |-> "", title |-> "T1",
     is_shuffle_active |-> Some(TRUE), auto_repeat_mode |-> Some("LIST"),
     playback_status |-> "PAUSED"]
WinRawNoProps ==
    [has_props |-> FALSE, artist |-> "", subtitle |-> "", title |-> "",
     is_shuffle_active |-> None, auto_repeat_mode |-> None,
     playback_status |-> "CLOSED"]
WinRaws == {WinRawA, WinRawB, WinRawNoProps}
Sessions == {1, 2}

\* "x or False" on an optional bool
OrFalse(x) == IF x = None THEN FALSE ELSE x[1]

\* "auto_repeat_mode or False": None and the member NONE (= 0) are falsy, any
\* other member is kept as the enum member itself.
RepeatOrFalse(x) ==
    IF x = None \/ x = Some("NONE") THEN Some(FALSE) ELSE EnumMember(x[1])

\* session: the controller's current_session handle; raw: what the session
\* answers at the moment of the read
get_wmsa_state(session, raw) ==
    IF session = None THEN default_media_playback_state
    ELSE IF ~raw.has_props THEN default_media_playback_state
    ELSE [artist |-> Some(raw.artist),
          subtitle |-> Some(raw.subtitle),
          title |-> Some(raw.title),
          is_shuffle_active |-> Some(OrFalse(raw.is_shuffle_active)),
          auto_repeat_mode |-> RepeatOrFalse(raw.auto_repeat_mode),
          playback_status |-> Some(raw.playback_status)]

\* The class attribute last_media_playback_state is a dataclasses.field(...)
\* object (the class is not a dataclass): a value equal to no PlaybackState.
FieldObject == [dataclass_field |-> "default_factory"]

\* ------------------------------------------------------------------ state
Variants == {"mpris", "windows", "placeholder"}
Ops == {"play", "pause", "stop", "prev_track", "next_track"}
HandlerThreads == {"sc", "pi"}

\* Service lists the session bus can enumerate at discovery time.
ServiceLists ==
    { <<>>,
      <<[status |-> "Paused", fails |-> FALSE]>>,
      <<[status |-> "Paused", fails |-> FALSE], [status |-> "Playing", fails |-> FALSE]>>,
      <<[status |-> "Paused", fails |-> TRUE], [status |-> "Playing", fails |-> FALSE]>>,
      <<[status |-> "Paused", fails |-> TRUE], [status |-> "Paused", fails |-> FALSE]>> }

VARIABLES
    variant,                        \* which controller class is instantiated
    plugin_pc,                      \* position of the host shim
    emitted,                        \* state emitted by on_plugin_helper_ready
    on_media_playback_info_changed, \* callback slot set?
    cbLog,                          \* payloads of the callback invocations
    ret,                            \* outcome of the last facade call
    ncalls,                         \* facade calls made so far
    \* -- MPRISController
    services, mpris_raw,            \* platform: bus names, player snapshot
    _player_iface, _last_state, _stop_event, _loop_stopping,
    wpc, w_state,                   \* worker thread position, its local state
    cpc,                            \* position of cleanup() in its caller
    cmdQueue, started,              \* coroutines handed to the loop / started
    direct,                         \* coroutines run on the calling thread
    reads, cb_always,               \* states read by the polls; slot set at all?
    \* -- WindowsMediaController
    mgr_session, win_raw,           \* platform: current session, its snapshot
    current_session, playback_info_changed_token,
    current_session_changed_token, last_media_playback_state,
    subs,                           \* sessions holding a live subscription
    pending, nnotify,               \* notifications raised, not yet handled
    hpc, h_state,                   \* handler threads: position, local state
    \* -- MediaPlayerPlugin
    _media_controller,              \* number of the controller held, or None
    cleanups,                       \* cleanup() calls per controller created
    \* -- one adapter operation applied to given platform answers
    args, outcome

vars == <<variant, plugin_pc, emitted, on_media_playback_info_changed, cbLog,
          ret, ncalls, services, mpris_raw, _player_iface, _last_state,
          _stop_event, _loop_stopping, wpc, w_state, cpc, cmdQueue, started,
          direct, reads, cb_always, mgr_session, win_raw, current_session,
          playback_info_changed_token, current_session_changed_token,
          last_media_playback_state, subs, pending, nnotify, hpc, h_state,
          _media_controller, cleanups, args, outcome>>

pluginVars == <<plugin_pc, emitted, on_media_playback_info_changed>>
lifeVars == <<_media_controller, cleanups>>
applyVars == <<args, outcome>>
callVars == <<ret, ncalls>>
mprisPlatform == <<services, mpris_raw>>
mprisCtl == <<_player_iface, _last_state, _stop_event, _loop_stopping>>
mprisWorker == <<wpc, w_state>>
mprisQueue == <<cmdQueue, started, direct>>
mprisHist == <<reads, cb_always>>
mprisVars == <<mprisPlatform, mprisCtl, mprisWorker, cpc, mprisQueue, mprisHist>>
winPlatform == <<mgr_session, win_raw>>
winCtl == <<current_session, playback_info_changed_token,
            current_session_changed_token, last_media_playback_state, subs>>
winThreads == <<pending, nnotify, hpc, h_state>>
winVars == <<winPlatform, winCtl, winThreads>>

NoArgs ==
    [fn |-> "none", adapter |-> "placeholder", op |-> "play", handle |-> None,
     raw |-> RawBroken, win |-> WinRawNoProps, fails |-> FALSE,
     accept1 |-> FALSE, accept2 |-> FALSE, os_name |-> "Linux",
     is_media_event |-> FALSE, processed_by_us_at |-> 0, setting |-> None,
     random |-> 0, events |-> <<>>]
NoOutcome == [done |-> FALSE, raised |-> FALSE, value |-> None, issued |-> <<>>]

NoRet == [kind |-> "none", value |-> None, raised |-> FALSE, queried |-> FALSE]

Init ==
    /\ variant \in Variants
    /\ plugin_pc = "start"
    /\ emitted = None
    /\ on_media_playback_info_changed = FALSE
    /\ cbLog = <<>>
    /\ ret = NoRet
    /\ ncalls = 0
    /\ services \in (IF variant = "mpris" THEN ServiceLists ELSE {<<>>})
    /\ mpris_raw \in (IF variant = "mpris" THEN MprisRaws ELSE {RawBroken})
    /\ _player_iface = None
    /\ _last_state = None
    /\ _stop_event = FALSE
    /\ _loop_stopping = FALSE
    /\ wpc = "unstarted"
    /\ w_state = None
    /\ cpc = "none"
    /\ cmdQueue = <<>>
    /\ started = <<>>
    /\ direct = <<>>
    /\ reads = <<>>
    /\ cb_always = TRUE
    /\ mgr_session \in (IF variant = "windows" THEN {None, Some(1)} ELSE {None})
    /\ win_raw \in (IF variant = "windows" THEN WinRaws
                    ELSE {WinRawNoProps})
    /\ current_session = None
    /\ playback_info_changed_token = None
    /\ current_session_changed_token = None
    /\ last_media_playback_state = FieldObject
    /\ subs = {}
    /\ pending = {}
    /\ nnotify = 0
    /\ hpc = [t \in HandlerThreads |-> "idle"]
    /\ h_state = [t \in HandlerThreads |-> None]
    /\ _media_controller = None
    /\ cleanups = <<>>
    /\ args = NoArgs
    /\ outcome = NoOutcome

\* =================================================== MPRISController.py
\* Index of the first service that can be introspected and reports
\* "Playing", 0 if there is none (the for loop of _init_player).
RECURSIVE FirstPlaying(_, _)
FirstPlaying(svcs, i) ==
    IF i > Len(svcs) THEN 0
    ELSE IF ~svcs[i].fails /\ svcs[i].status = "Playing" THEN i
    ELSE FirstPlaying(svcs, i + 1)

\* Outcome of discovery: the selected service, or the exception that leaves
\* _init_player when the unguarded fallback introspection fails.
_init_player_fallback_last(svcs) ==
    LET p == FirstPlaying(svcs, 1) IN
    IF p # 0 THEN [iface |-> Some(p), raised |-> FALSE]
    ELSE IF svcs = <<>> THEN [iface |-> None, raised |-> FALSE]
    ELSE IF svcs[1].fails THEN [iface |-> None, raised |-> TRUE]
    ELSE [iface |-> Some(Len(svcs)), raised |-> FALSE]
_init_player(svcs) ==
    LET p == FirstPlaying(svcs, 1) IN
    IF p # 0 THEN [iface |-> Some(p), raised |-> FALSE]
    ELSE IF svcs = <<>> THEN [iface |-> None, raised |-> FALSE]
    ELSE IF svcs[1].fails THEN [iface |-> None, raised |-> TRUE]
    ELSE [iface |-> Some(1), raised |-> FALSE]

\* "if self._player_iface:" of the control operations and of _poll
HasPlayerAlways(iface) == TRUE
HasPlayer(iface) == iface # None

\* "if state != self._last_state:"
PollChangedKeepsLastKnown(state, last) ==
    Some(state) # last /\ state # default_media_playback_state
PollChangedAlways(state, last) == TRUE
PollChanged(state, last) == Some(state) # last

\* "while not self._stop_event.is_set():" of _run
StopNeverObserved(stop_event) == FALSE
StopObserved(stop_event) == stop_event

\* Where the worker continues after the callback returned or raised: the
\* try/except of _poll swallows the exception.
AfterCallbackUnguarded(raised) == IF raised THEN "crashed" ELSE "sleep"
AfterCallback(raised) == "sleep"

\* asyncio.run_coroutine_threadsafe: the coroutine is queued on the worker's
\* loop; nothing runs on the calling thread.
\* A coroutine is identified by the number of the facade call that made it.
_run_coroutine_on_caller(queue, coro) ==
    [queue |-> queue, direct |-> <<coro>>]
_run_coroutine_in_loop(queue, coro) ==
    [queue |-> Append(queue, coro), direct |-> <<>>]

\* "self._last_state or default_media_playback_state()"
MprisCachedState(last) ==
    IF last = None THEN default_media_playback_state ELSE last[1]

Constructed == plugin_pc # "start"

\* Thread(target=self._run).start() ... run_until_complete(_init_player())
InitPlayer ==
    /\ variant = "mpris"
    /\ wpc = "init"
    /\ LET d == _init_player(services) IN
         /\ _player_iface' = d.iface
         /\ wpc' = IF d.raised THEN "crashed" ELSE "check"
    /\ UNCHANGED <<variant, applyVars, lifeVars, pluginVars, cbLog, callVars, mprisPlatform,
                   _last_state, _stop_event, _loop_stopping, w_state, cpc,
                   mprisQueue, mprisHist, winVars>>

\* "while not self._stop_event.is_set():" found set: the thread ends
WorkerExit ==
    /\ variant = "mpris"
    /\ wpc = "check"
    /\ StopObserved(_stop_event)
    /\ wpc' = "exited"
    /\ UNCHANGED <<variant, applyVars, lifeVars, pluginVars, cbLog, callVars, mprisPlatform,
                   mprisCtl, w_state, cpc, mprisQueue, mprisHist, winVars>>

\* The loop is entered for one _poll(): coroutines queued so far are started
\* on it; without a player _poll returns at once.
PollBegin ==
    /\ variant = "mpris"
    /\ wpc = "check"
    /\ ~StopObserved(_stop_event)
    /\ HasPlayer(_player_iface) => Len(reads) < MaxPolls
    /\ wpc' = IF HasPlayer(_player_iface) THEN "reading" ELSE "sleep"
    /\ started' = started \o cmdQueue
    /\ cmdQueue' = <<>>
    /\ UNCHANGED <<variant, applyVars, lifeVars, pluginVars, cbLog, callVars, mprisPlatform,
                   mprisCtl, w_state, cpc, direct, mprisHist, winVars>>

\* A coroutine handed over while the loop is running is started on it.
StartCommand ==
    /\ variant = "mpris"
    /\ wpc \in {"reading", "cb"}
    /\ cmdQueue # <<>>
    /\ started' = Append(started, Head(cmdQueue))
    /\ cmdQueue' = Tail(cmdQueue)
    /\ UNCHANGED <<variant, applyVars, lifeVars, pluginVars, cbLog, callVars, mprisPlatform,
                   mprisCtl, mprisWorker, cpc, direct, mprisHist, winVars>>

\* state = await self._get_media_playback_state(); compare; cache; notify
PollRead ==
    /\ variant = "mpris"
    /\ wpc = "reading"
    /\ LET state == _get_media_playback_state(_player_iface, mpris_raw) IN
         /\ reads' = Append(reads, state)
         /\ cb_always' = (cb_always /\ on_media_playback_info_changed)
         /\ IF PollChanged(state, _last_state)
            THEN /\ _last_state' = Some(state)
                 /\ IF on_media_playback_info_changed
                    THEN /\ cbLog' = Append(cbLog, state)
                         /\ w_state' = Some(state)
                         /\ wpc' = "cb"
                    ELSE /\ wpc' = "sleep"
                         /\ UNCHANGED <<cbLog, w_state>>
            ELSE /\ wpc' = "sleep"
                 /\ UNCHANGED <<_last_state, cbLog, w_state>>
    /\ UNCHANGED <<variant, applyVars, lifeVars, pluginVars, callVars, mprisPlatform, _player_iface,
                   _stop_event, _loop_stopping, cpc, mprisQueue, winVars>>

\* loop.stop() reached the running loop before _poll finished:
\* run_until_complete raises RuntimeError and the thread ends.
PollAborted ==
    /\ variant = "mpris"
    /\ wpc = "reading"
    /\ _loop_stopping
    /\ wpc' = "crashed"
    /\ UNCHANGED <<variant, applyVars, lifeVars, pluginVars, cbLog, callVars, mprisPlatform,
                   mprisCtl, w_state, cpc, mprisQueue, mprisHist, winVars>>

\* self.on_media_playback_info_changed(state) returns or raises
CallbackReturn ==
    /\ variant = "mpris"
    /\ wpc = "cb"
    /\ \E raised \in BOOLEAN : wpc' = AfterCallback(raised)
    /\ w_state' = None
    /\ UNCHANGED <<variant, applyVars, lifeVars, pluginVars, cbLog, callVars, mprisPlatform,
                   mprisCtl, cpc, mprisQueue, mprisHist, winVars>>

\* time.sleep(1)
Sleep ==
    /\ variant = "mpris"
    /\ wpc = "sleep"
    /\ wpc' = "check"
    /\ UNCHANGED <<variant, applyVars, lifeVars, pluginVars, cbLog, callVars, mprisPlatform,
                   mprisCtl, w_state, cpc, mprisQueue, mprisHist, winVars>>

\* The player changes what it reports.
MprisChange ==
    /\ variant = "mpris"
    /\ \E r \in MprisRaws \ {mpris_raw} : mpris_raw' = r
    /\ UNCHANGED <<variant, applyVars, lifeVars, pluginVars, cbLog, callVars, services, mprisCtl,
                   mprisWorker, cpc, mprisQueue, mprisHist, winVars>>

\* play / pause / stop / prev_track / next_track
MprisControl ==
    /\ variant = "mpris"
    /\ Constructed
    /\ ncalls < MaxCalls
    /\ \E op \in Ops :
         IF HasPlayer(_player_iface)
         THEN LET h == _run_coroutine_in_loop(cmdQueue, ncalls + 1) IN
              /\ cmdQueue' = h.queue
              /\ direct' = direct \o h.direct
              /\ ret' = [kind |-> "control", value |-> Some(TRUE),
                         raised |-> FALSE, queried |-> FALSE]
         ELSE /\ ret' = [kind |-> "control", value |-> Some(FALSE),
                         raised |-> FALSE, queried |-> FALSE]
              /\ UNCHANGED <<cmdQueue, direct>>
    /\ ncalls' = ncalls + 1
    /\ UNCHANGED <<variant, applyVars, lifeVars, pluginVars, cbLog, mprisPlatform, mprisCtl,
                   mprisWorker, cpc, started, mprisHist, winVars>>

\* get_media_playback_state
MprisGet ==
    /\ variant = "mpris"
    /\ Constructed
    /\ ncalls < MaxCalls
    /\ ret' = [kind |-> "get", value |-> Some(MprisCachedState(_last_state)),
               raised |-> FALSE, queried |-> FALSE]
    /\ ncalls' = ncalls + 1
    /\ UNCHANGED <<variant, applyVars, lifeVars, pluginVars, cbLog, mprisVars, winVars>>

\* cleanup(): self._stop_event.set()
CleanupSetStop ==
    /\ variant = "mpris"
    /\ plugin_pc = "stopping"
    /\ cpc = "none"
    /\ _stop_event' = TRUE
    /\ cpc' = "joining"
    /\ UNCHANGED <<variant, applyVars, lifeVars, pluginVars, cbLog, callVars, mprisPlatform,
                   _player_iface, _last_state, _loop_stopping, mprisWorker,
                   mprisQueue, mprisHist, winVars>>

\* cleanup(): self._poll_thread.join(timeout=2) returns, the thread having
\* ended or the two seconds having passed.
CleanupJoin ==
    /\ variant = "mpris"
    /\ cpc = "joining"
    /\ cpc' = "stopping"
    /\ UNCHANGED <<variant, applyVars, lifeVars, pluginVars, cbLog, callVars, mprisPlatform,
                   mprisCtl, mprisWorker, mprisQueue, mprisHist, winVars>>

\* cleanup(): self._loop.stop(), then on_chat_stop drops the controller
CleanupLoopStop ==
    /\ variant = "mpris"
    /\ cpc = "stopping"
    /\ _loop_stopping' = TRUE
    /\ cpc' = "done"
    /\ plugin_pc' = "stopped"
    /\ _media_controller' = None
    /\ UNCHANGED <<variant, applyVars, cleanups, emitted, on_media_playback_info_changed, cbLog,
                   callVars, mprisPlatform, _player_iface, _last_state,
                   _stop_event, mprisWorker, mprisQueue, mprisHist, winVars>>

\* ============================================== WindowsMediaController
\* Outcome of a transport command: get_current_session() is dereferenced
\* without a check, so no session means AttributeError; otherwise the
\* platform's answer.  stop is try_stop_async then, if accepted, try_pause_async.
WinCommand(op, session, accept1, accept2) ==
    IF session = None
    THEN [kind |-> "control", value |-> None, raised |-> TRUE,
          queried |-> FALSE]
    ELSE [kind |-> "control",
          value |-> Some(IF op = "stop" /\ accept1 THEN accept2 ELSE accept1),
          raised |-> FALSE, queried |-> TRUE]

\* The platform commands one transport operation issues on the session, in
\* order: _inner_stop issues try_pause_async only "if ret_val:" of
\* try_stop_async.
PlatformCommand(op) ==
    CASE op = "play" -> "try_play_async"
      [] op = "pause" -> "try_pause_async"
      [] op = "stop" -> "try_stop_async"
      [] op = "prev_track" -> "try_skip_previous_async"
      [] op = "next_track" -> "try_skip_next_async"

WinIssuedPauseAlways(op, session, accept1, accept2) ==
    IF session = None THEN <<>>
    ELSE IF op = "stop" THEN <<"try_stop_async", "try_pause_async">>
    ELSE <<PlatformCommand(op)>>
WinIssued(op, session, accept1, accept2) ==
    IF session = None THEN <<>>
    ELSE IF op = "stop" /\ accept1 THEN <<"try_stop_async", "try_pause_async">>
    ELSE <<PlatformCommand(op)>>

\* get_wmsa_state has no try/except: when the session's get_playback_info()
\* or try_get_media_properties_async() fails, the exception leaves it.
WmsaReadRaises(session, fails) == session # None /\ fails

\* get_media_playback_state returns self.get_wmsa_state(): a fresh read of
\* the session whenever there is one.
WinGetState(session, raw) ==
    [kind |-> "get", value |-> Some(get_wmsa_state(session, raw)),
     raised |-> FALSE, queried |-> session # None]

\* "if self.last_media_playback_state == state: return"
WinUnchanged(last, state) == last = state

\* __init__ of a new instance, whose attributes start from the class
\* attributes: take the manager's current session, subscribe to session
\* changes and, if there is a session, to its playback-info changes.
WinConstruct ==
    /\ current_session' = mgr_session
    /\ current_session_changed_token' = Some("token")
    /\ IF mgr_session # None
       THEN /\ playback_info_changed_token' = Some("token")
            /\ subs' = subs \cup {mgr_session[1]}
       ELSE /\ playback_info_changed_token' = None
            /\ UNCHANGED subs
    /\ last_media_playback_state' = FieldObject

\* The platform makes another session (or none) the current one.
WinSessionChange ==
    /\ variant = "windows"
    /\ nnotify < MaxNotify
    /\ \E new \in ({None} \cup {Some(s) : s \in Sessions}) \ {mgr_session} :
         mgr_session' = new
    /\ pending' = IF current_session_changed_token # None /\ Constructed
                  THEN pending \cup {"sc"} ELSE pending
    /\ nnotify' = nnotify + 1
    /\ UNCHANGED <<variant, applyVars, lifeVars, pluginVars, cbLog, callVars, mprisVars, win_raw,
                   winCtl, hpc, h_state>>

\* A session changes what it reports.
WinRawChange ==
    /\ variant = "windows"
    /\ \E r \in WinRaws \ {win_raw} : win_raw' = r
    /\ UNCHANGED <<variant, applyVars, lifeVars, pluginVars, cbLog, callVars, mprisVars,
                   mgr_session, winCtl, winThreads>>

\* A session the controller is subscribed to raises playback-info-changed.
WinPlaybackInfoChanged ==
    /\ variant = "windows"
    /\ nnotify < MaxNotify
    /\ subs # {}
    /\ pending' = pending \cup {"pi"}
    /\ nnotify' = nnotify + 1
    /\ UNCHANGED <<variant, applyVars, lifeVars, pluginVars, cbLog, callVars, mprisVars,
                   winPlatform, winCtl, hpc, h_state>>

\* current_session_changed_handler: "if self.playback_info_changed_token is
\* not None and self.current_session is not None:" the old session's
\* subscription is removed; the result is the set of sessions still subscribed.
DetachNothing(token, session, attached) == attached
DetachOld(token, session, attached) ==
    IF token # None /\ session # None THEN attached \ {session[1]}
    ELSE attached

\* current_session_changed_handler up to the call of
\* playback_info_changed_handler
SessionChangedHandler ==
    /\ variant = "windows"
    /\ "sc" \in pending
    /\ hpc["sc"] = "idle"
    /\ pending' = pending \ {"sc"}
    /\ LET new_session == mgr_session IN
       IF new_session = current_session
       THEN UNCHANGED <<winCtl, hpc>>
       ELSE /\ current_session' = new_session
            /\ LET detached == DetachOld(playback_info_changed_token,
                                          current_session, subs)
               IN subs' = IF new_session # None
                          THEN detached \cup {new_session[1]} ELSE detached
            /\ playback_info_changed_token' =
                   IF new_session # None THEN Some("token") ELSE None
            /\ hpc' = [hpc EXCEPT !["sc"] =
                          IF new_session # None THEN "read" ELSE "idle"]
            /\ UNCHANGED <<current_session_changed_token,
                           last_media_playback_state>>
    /\ UNCHANGED <<variant, applyVars, lifeVars, pluginVars, cbLog, callVars, mprisVars,
                   winPlatform, nnotify, h_state>>

\* The playback-info subscription's lambda starts playback_info_changed_handler
PlaybackInfoHandler ==
    /\ variant = "windows"
    /\ "pi" \in pending
    /\ hpc["pi"] = "idle"
    /\ pending' = pending \ {"pi"}
    /\ hpc' = [hpc EXCEPT !["pi"] = "read"]
    /\ UNCHANGED <<variant, applyVars, lifeVars, pluginVars, cbLog, callVars, mprisVars,
                   winPlatform, winCtl, nnotify, h_state>>

\* playback_info_changed_handler: state = self.get_wmsa_state(); equality test
HandlerRead(t) ==
    /\ variant = "windows"
    /\ hpc[t] = "read"
    /\ LET state == get_wmsa_state(current_session, win_raw) IN
       IF WinUnchanged(last_media_playback_state, state)
       THEN /\ hpc' = [hpc EXCEPT ![t] = "idle"]
            /\ UNCHANGED h_state
       ELSE /\ hpc' = [hpc EXCEPT ![t] = "store"]
            /\ h_state' = [h_state EXCEPT ![t] = Some(state)]
    /\ UNCHANGED <<variant, applyVars, lifeVars, pluginVars, cbLog, callVars, mprisVars,
                   winPlatform, winCtl, pending, nnotify>>

\* playback_info_changed_handler: cache the state, invoke the callback
HandlerStore(t) ==
    /\ variant = "windows"
    /\ hpc[t] = "store"
    /\ last_media_playback_state' = h_state[t][1]
    /\ IF on_media_playback_info_changed
       THEN /\ cbLog' = Append(cbLog, h_state[t][1])
            /\ hpc' = [hpc EXCEPT ![t] = "cb"]
            /\ UNCHANGED h_state
       ELSE /\ hpc' = [hpc EXCEPT ![t] = "idle"]
            /\ h_state' = [h_state EXCEPT ![t] = None]
            /\ UNCHANGED cbLog
    /\ UNCHANGED <<variant, applyVars, lifeVars, pluginVars, callVars, mprisVars, winPlatform,
                   current_session, playback_info_changed_token,
                   current_session_changed_token, subs, pending, nnotify>>

\* the callback returns to the handler
HandlerCallbackReturn(t) ==
    /\ variant = "windows"
    /\ hpc[t] = "cb"
    /\ hpc' = [hpc EXCEPT ![t] = "idle"]
    /\ h_state' = [h_state EXCEPT ![t] = None]
    /\ UNCHANGED <<variant, applyVars, lifeVars, pluginVars, cbLog, callVars, mprisVars,
                   winPlatform, winCtl, pending, nnotify>>

\* play / pause / stop / prev_track / next_track
WinControl ==
    /\ variant = "windows"
    /\ Constructed
    /\ ncalls < MaxCalls
    /\ \E op \in Ops, accept1 \in BOOLEAN, accept2 \in BOOLEAN :
         ret' = WinCommand(op, mgr_session, accept1, accept2)
    /\ ncalls' = ncalls + 1
    /\ UNCHANGED <<variant, applyVars, lifeVars, pluginVars, cbLog, mprisVars, winVars>>

\* get_media_playback_state
WinGet ==
    /\ variant = "windows"
    /\ Constructed
    /\ ncalls < MaxCalls
    /\ ret' = WinGetState(current_session, win_raw)
    /\ ncalls' = ncalls + 1
    /\ UNCHANGED <<variant, applyVars, lifeVars, pluginVars, cbLog, mprisVars, winVars>>

\* cleanup(): remove the playback-info handler from current_session and from
\* the manager's current session (AttributeError when there is none, which
\* leaves both tokens in place), then the session-changed handler.
WinCleanupRaises ==
    playback_info_changed_token # None /\ mgr_session = None

WinCleanup ==
    IF WinCleanupRaises
    THEN /\ subs' = IF current_session # None
                    THEN subs \ {current_session[1]} ELSE subs
         /\ ret' = [kind |-> "cleanup", value |-> None, raised |-> TRUE,
                    queried |-> FALSE]
         /\ UNCHANGED <<current_session, playback_info_changed_token,
                        current_session_changed_token,
                        last_media_playback_state>>
    ELSE /\ subs' = IF playback_info_changed_token # None
                    THEN (subs \ (IF current_session # None
                                  THEN {current_session[1]} ELSE {}))
                         \ {mgr_session[1]}
                    ELSE subs
         /\ playback_info_changed_token' = None
         /\ current_session_changed_token' = None
         /\ ret' = [kind |-> "cleanup", value |-> None, raised |-> FALSE,
                    queried |-> FALSE]
         /\ UNCHANGED <<current_session, last_media_playback_state>>

\* =============================== placeholder controllers (Linux, macOS)
PlaceholderControl ==
    /\ variant = "placeholder"
    /\ Constructed
    /\ ncalls < MaxCalls
    /\ \E op \in Ops :
         ret' = [kind |-> "control", value |-> Some(FALSE),
                 raised |-> FALSE, queried |-> FALSE]
    /\ ncalls' = ncalls + 1
    /\ UNCHANGED <<variant, applyVars, lifeVars, pluginVars, cbLog, mprisVars, winVars>>

PlaceholderGet ==
    /\ variant = "placeholder"
    /\ Constructed
    /\ ncalls < MaxCalls
    /\ ret' = [kind |-> "get", value |-> Some(default_media_playback_state),
               raised |-> FALSE, queried |-> FALSE]
    /\ ncalls' = ncalls + 1
    /\ UNCHANGED <<variant, applyVars, lifeVars, pluginVars, cbLog, mprisVars, winVars>>

\* ======================================================= MediaPlayerPlugin
\* The value get_media_playback_state() returns to its caller right now.
get_media_playback_state ==
    CASE variant = "mpris" -> MprisCachedState(_last_state)
      [] variant = "windows" -> get_wmsa_state(current_session, win_raw)
      [] OTHER -> default_media_playback_state

\* on_plugin_helper_ready: self._media_controller = get_platform_controller()
PluginCreate ==
    /\ plugin_pc = "start"
    /\ plugin_pc' = "created"
    /\ _media_controller' = Some(Len(cleanups) + 1)
    /\ cleanups' = Append(cleanups, 0)
    /\ IF variant = "mpris" THEN wpc' = "init" ELSE UNCHANGED wpc
    /\ IF variant = "windows" THEN WinConstruct ELSE UNCHANGED winCtl
    /\ UNCHANGED <<variant, applyVars, emitted, on_media_playback_info_changed, cbLog,
                   callVars, mprisPlatform, mprisCtl, w_state, cpc, mprisQueue,
                   mprisHist, winPlatform, winThreads>>

\* on_plugin_helper_ready: the handler is called with the controller's state
PluginEmit ==
    /\ plugin_pc = "created"
    /\ plugin_pc' = "emitted"
    /\ emitted' = Some(get_media_playback_state)
    /\ UNCHANGED <<variant, applyVars, lifeVars, on_media_playback_info_changed, cbLog, callVars,
                   mprisVars, winVars>>

\* on_plugin_helper_ready: the callback slot is set
PluginRegister ==
    /\ plugin_pc = "emitted"
    /\ plugin_pc' = "ready"
    /\ on_media_playback_info_changed' = TRUE
    /\ UNCHANGED <<variant, applyVars, lifeVars, emitted, cbLog, callVars, mprisVars, winVars>>

\* on_chat_stop: self._media_controller.cleanup(); self._media_controller = None
PluginChatStop ==
    /\ plugin_pc = "ready"
    /\ _media_controller # None
    /\ cleanups' = [cleanups EXCEPT ![_media_controller[1]] = @ + 1]
    /\ CASE variant = "mpris" ->
              /\ plugin_pc' = "stopping"
              /\ UNCHANGED <<ret, winCtl, _media_controller>>
         [] variant = "windows" ->
              /\ plugin_pc' = "stopped"
              /\ WinCleanup
              /\ _media_controller' =
                     IF WinCleanupRaises THEN _media_controller ELSE None
         [] OTHER ->
              /\ plugin_pc' = "stopped"
              /\ _media_controller' = None
              /\ UNCHANGED <<ret, winCtl>>
    /\ UNCHANGED <<variant, applyVars, emitted, on_media_playback_info_changed, cbLog,
                   ncalls, mprisVars, winPlatform, winThreads>>

Next ==
    \/ InitPlayer
    \/ WorkerExit
    \/ PollBegin
    \/ StartCommand
    \/ PollRead
    \/ PollAborted
    \/ CallbackReturn
    \/ Sleep
    \/ MprisChange
    \/ MprisControl
    \/ MprisGet
    \/ CleanupSetStop
    \/ CleanupJoin
    \/ CleanupLoopStop
    \/ WinSessionChange
    \/ WinRawChange
    \/ WinPlaybackInfoChanged
    \/ SessionChangedHandler
    \/ PlaybackInfoHandler
    \/ \E t \in HandlerThreads : HandlerRead(t)
    \/ \E t \in HandlerThreads : HandlerStore(t)
    \/ \E t \in HandlerThreads : HandlerCallbackReturn(t)
    \/ WinControl
    \/ WinGet
    \/ PlaceholderControl
    \/ PlaceholderGet
    \/ PluginCreate
    \/ PluginEmit
    \/ PluginRegister
    \/ PluginChatStop

Spec == Init /\ [][Next]_vars

\* ================================================================ claims
\* The reads at which the callback fires if only a read that differs from
\* its predecessor read fires (the first read has no predecessor).
RECURSIVE ChangedReads(_, _)
ChangedReads(rs, i) ==
    IF i > Len(rs) THEN <<>>
    ELSE (IF i > 1 /\ rs[i] # rs[i - 1] THEN <<rs[i]>> ELSE <<>>)
         \o ChangedReads(rs, i + 1)

\* The same, the first read counting as a change.
RECURSIVE FirstAndChangedReads(_, _)
FirstAndChangedReads(rs, i) ==
    IF i > Len(rs) THEN <<>>
    ELSE (IF i = 1 \/ rs[i] # rs[i - 1] THEN <<rs[i]>> ELSE <<>>)
         \o FirstAndChangedReads(rs, i + 1)

\* C1 (as stated): with a discovered session and the callback registered at
\* every read, the callback fired exactly for the reads that differ from
\* their predecessor read, with their payloads, in order.
C1_FiresOnlyOnChangedReads ==
    (variant = "mpris" /\ cb_always) => cbLog = ChangedReads(reads, 1)

\* C1 (amended): the callback fired for the first read and for every later
\* read that differs from its predecessor read, with exactly those payloads
\* in that order, and for no other read.
C1_FiresOnFirstAndChangedReads ==
    (variant = "mpris" /\ cb_always) => cbLog = FirstAndChangedReads(reads, 1)

C1_Witness ==
    /\ variant = "mpris"
    /\ cb_always
    /\ Len(reads) = 3
    /\ reads[2] = reads[1]
    /\ reads[3] # reads[2]
    /\ cbLog = <<reads[1], reads[3]>>

\* The states handed to the subscriber: the one on_plugin_helper_ready emits,
\* then the payload of every callback invocation (the slot is set after the
\* emit, so every invocation follows it).
Propagated == (IF emitted = None THEN <<>> ELSE <<emitted[1]>>) \o cbLog

\* C2: no two consecutively propagated states are structurally equal.
C2_NoConsecutiveEqualPropagated ==
    \A i \in 1..(Len(Propagated) - 1) : Propagated[i] # Propagated[i + 1]

\* C3: while a callback invocation on_media_playback_info_changed(s) is in
\* progress, get_media_playback_state() returns s.
C3_CallbackObservesNewState ==
    /\ (variant = "mpris" /\ wpc = "cb") => get_media_playback_state = w_state[1]
    /\ \A t \in HandlerThreads :
         (variant = "windows" /\ hpc[t] = "cb")
            => get_media_playback_state = h_state[t][1]

\* The state the reconciliation path cached last, the default if none.
CachedState ==
    CASE variant = "mpris" -> MprisCachedState(_last_state)
      [] variant = "windows" ->
            IF last_media_playback_state = FieldObject
            THEN default_media_playback_state
            ELSE last_media_playback_state
      [] OTHER -> default_media_playback_state

\* C4: every call of get_media_playback_state() returns the cached state and
\* issues no query to the platform session.
C4_GetterReturnsCacheWithoutQuery ==
    [][(ncalls' # ncalls /\ ret'.kind = "get")
          => (ret'.value = Some(CachedState) /\ ~ret'.queried)]_vars

\* C5: on the poll-based controller with no discovered session a control
\* operation returns false, hands nothing to the worker, leaves the cache
\* alone and causes no callback invocation.
C5_ControlNoOpWithoutSession ==
    [][(variant = "mpris" /\ _player_iface = None
          /\ ncalls' # ncalls /\ ret'.kind = "control")
          => (/\ ret'.value = Some(FALSE)
              /\ ~ret'.raised
              /\ UNCHANGED <<cmdQueue, started, direct, _last_state, cbLog>>)]_vars

C5_Witness ==
    /\ variant = "mpris"
    /\ wpc = "init"
    /\ _player_iface = None
    /\ ret.kind = "control"
    /\ ret.value = Some(FALSE)
    /\ cmdQueue = <<>>

\* C6: on the Windows controller a control operation called while the
\* platform reports no current session returns false and does not raise.
C6_WinControlFalseWithoutSession ==
    [][(variant = "windows" /\ mgr_session = None
          /\ ncalls' # ncalls /\ ret'.kind = "control")
          => (ret'.value = Some(FALSE) /\ ~ret'.raised)]_vars

\* The threads that are inside on_media_playback_info_changed.
InCallback ==
    {t \in HandlerThreads : hpc[t] = "cb"}
        \cup (IF wpc = "cb" THEN {"worker"} ELSE {})

\* C7: at most one invocation of the callback is in progress at a time.
C7_AtMostOneCallbackInFlight == Cardinality(InCallback) <= 1

\* C8: the Windows controller never invokes the callback with a state equal
\* to the one it notified last.
C8_WinNeverNotifiesSameStateTwice ==
    variant = "windows"
        => \A i \in 1..(Len(cbLog) - 1) : cbLog[i] # cbLog[i + 1]

\* C9: no transport command of the poll-based controller runs on the calling
\* thread, and commands are started only by the worker while it runs its loop.
C9_CommandsRunOnWorkerOnly ==
    [][variant = "mpris"
          => (/\ direct' = <<>>
              /\ started' # started => wpc \in {"check", "reading", "cb"})]_vars

C9_Witness ==
    /\ variant = "mpris"
    /\ ret.kind = "control"
    /\ ret.value = Some(TRUE)
    /\ started # <<>>
    /\ direct = <<>>
    /\ wpc = "reading"

\* C10: the worker leaves its poll loop only after the stop flag has been
\* set; a failed read or a raising callback does not end it.
C10_PollLoopEndsOnlyAfterStop ==
    [][(variant = "mpris" /\ wpc \in {"check", "reading", "cb", "sleep"}
          /\ wpc' \in {"exited", "crashed"}) => _stop_event]_vars

C10_Witness ==
    /\ variant = "mpris"
    /\ ~_stop_event
    /\ Len(reads) >= 2
    /\ ReadRaises(mpris_raw)
    /\ reads[Len(reads)] = default_media_playback_state
    /\ wpc = "reading"

\* ============================================ discovery on its own
\* Every enumeration of up to MaxServices media services, each Paused or
\* Playing and each readable or failing on introspection / status read.
MaxServices == 3

ServiceStates == [status : {"Paused", "Playing"}, fails : BOOLEAN]

RECURSIVE ListsUpTo(_)
ListsUpTo(n) ==
    IF n = 0 THEN {<<>>}
    ELSE LET shorter == ListsUpTo(n - 1) IN
         shorter \cup {Append(l, x) : l \in {m \in shorter : Len(m) = n - 1},
                                      x \in ServiceStates}

EnumeratedServices == ListsUpTo(MaxServices)

\* The poll-based controller before construction, on any such enumeration.
InitDiscovery ==
    /\ variant = "mpris"
    /\ plugin_pc = "start"
    /\ emitted = None
    /\ on_media_playback_info_changed = FALSE
    /\ cbLog = <<>>
    /\ ret = NoRet
    /\ ncalls = 0
    /\ services \in EnumeratedServices
    /\ mpris_raw = RawPlaying
    /\ _player_iface = None
    /\ _last_state = None
    /\ _stop_event = FALSE
    /\ _loop_stopping = FALSE
    /\ wpc = "unstarted"
    /\ w_state = None
    /\ cpc = "none"
    /\ cmdQueue = <<>>
    /\ started = <<>>
    /\ direct = <<>>
    /\ reads = <<>>
    /\ cb_always = TRUE
    /\ mgr_session = None
    /\ win_raw = WinRawNoProps
    /\ current_session = None
    /\ playback_info_changed_token = None
    /\ current_session_changed_token = None
    /\ last_media_playback_state = FieldObject
    /\ subs = {}
    /\ pending = {}
    /\ nnotify = 0
    /\ hpc = [t \in HandlerThreads |-> "idle"]
    /\ h_state = [t \in HandlerThreads |-> None]
    /\ _media_controller = None
    /\ cleanups = <<>>
    /\ args = NoArgs
    /\ outcome = NoOutcome

\* The controller is constructed and its worker runs _init_player.
NextDiscovery ==
    \/ PluginCreate
    \/ InitPlayer

SpecDiscovery == InitDiscovery /\ [][NextDiscovery]_vars

\* C11: discovery never raises, whichever services fail: the step that ends
\* _init_player takes the worker to its poll loop, with the session unset or
\* set to a service that can be read.
C11_DiscoveryNeverRaises ==
    [][(variant = "mpris" /\ wpc = "init" /\ wpc' # "init")
         => /\ wpc' = "check"
            /\ \/ _player_iface' = None
               \/ ~services[_player_iface'[1]].fails]_vars

\* C12: on a list of readable services discovery selects the first one that
\* is Playing, else the first one, else (empty list) none.
Readable(svcs) == \A i \in 1..Len(svcs) : ~svcs[i].fails

PlayingAt(svcs) == {i \in 1..Len(svcs) : svcs[i].status = "Playing"}

ExpectedSelection(svcs) ==
    IF PlayingAt(svcs) # {}
    THEN Some(CHOOSE i \in PlayingAt(svcs) : \A j \in PlayingAt(svcs) : i <= j)
    ELSE IF Len(svcs) > 0 THEN Some(1) ELSE None

C12_DiscoverySelection ==
    (variant = "mpris" /\ wpc \notin {"unstarted", "init"}
       /\ Readable(services))
      => /\ wpc # "crashed"
         /\ _player_iface = ExpectedSelection(services)

C12_Witness ==
    /\ wpc = "check"
    /\ Len(services) = 3
    /\ Readable(services)
    /\ PlayingAt(services) = {2}
    /\ _player_iface = Some(2)

\* ===================================== the plugin's hooks, any sequence
\* on_plugin_helper_ready and on_chat_stop as whole handlers, called in any
\* order; the controller's worker and handler threads do not run here.
MaxControllers == 2
MaxCleanups == 2

CleanupReturned ==
    [kind |-> "cleanup", value |-> None, raised |-> FALSE, queried |-> FALSE]

\* on_plugin_helper_ready: a new controller replaces whatever
\* _media_controller held, its state is emitted and the callback slot is set.
OnPluginHelperReady ==
    /\ Len(cleanups) < MaxControllers
    /\ _media_controller' = Some(Len(cleanups) + 1)
    /\ cleanups' = Append(cleanups, 0)
    /\ plugin_pc' = "ready"
    /\ on_media_playback_info_changed' = TRUE
    /\ CASE variant = "mpris" ->
              /\ _player_iface' = None
              /\ _last_state' = None
              /\ _stop_event' = FALSE
              /\ _loop_stopping' = FALSE
              /\ wpc' = "init"
              /\ cpc' = "none"
              /\ emitted' = Some(MprisCachedState(None))
              /\ UNCHANGED winCtl
         [] variant = "windows" ->
              /\ WinConstruct
              /\ emitted' = Some(get_wmsa_state(mgr_session, win_raw))
              /\ UNCHANGED <<mprisCtl, wpc, cpc>>
         [] OTHER ->
              /\ emitted' = Some(default_media_playback_state)
              /\ UNCHANGED <<mprisCtl, wpc, cpc, winCtl>>
    /\ UNCHANGED <<variant, applyVars, cbLog, callVars, mprisPlatform, w_state,
                   mprisQueue, mprisHist, winPlatform, winThreads>>

\* on_chat_stop: cleanup() on the controller held, if any; the reference is
\* dropped only when cleanup() returned.
OnChatStop ==
    /\ plugin_pc' = "stopped"
    /\ IF _media_controller = None
       THEN UNCHANGED <<lifeVars, ret, mprisCtl, cpc, winCtl>>
       ELSE /\ cleanups[_media_controller[1]] < MaxCleanups
            /\ cleanups' = [cleanups EXCEPT ![_media_controller[1]] = @ + 1]
            /\ CASE variant = "mpris" ->
                      /\ _stop_event' = TRUE
                      /\ _loop_stopping' = TRUE
                      /\ cpc' = "done"
                      /\ ret' = CleanupReturned
                      /\ _media_controller' = None
                      /\ UNCHANGED <<_player_iface, _last_state, winCtl>>
                 [] variant = "windows" ->
                      /\ WinCleanup
                      /\ _media_controller' =
                             IF WinCleanupRaises THEN _media_controller
                             ELSE None
                      /\ UNCHANGED <<mprisCtl, cpc>>
                 [] OTHER ->
                      /\ ret' = CleanupReturned
                      /\ _media_controller' = None
                      /\ UNCHANGED <<mprisCtl, cpc, winCtl>>
    /\ UNCHANGED <<variant, applyVars, emitted, on_media_playback_info_changed, cbLog,
                   ncalls, mprisPlatform, mprisWorker, mprisQueue, mprisHist,
                   winPlatform, winThreads>>

NextLifecycle ==
    \/ OnPluginHelperReady
    \/ OnChatStop
    \/ WinSessionChange

SpecLifecycle == Init /\ [][NextLifecycle]_vars

\* C13: a cleanup() call never raises and leaves no subscription token
\* behind, and a cleanup() call on a controller already cleaned up changes
\* nothing in that controller.
CleanupCalled == Len(cleanups') = Len(cleanups) /\ cleanups' # cleanups

CleanupCalledAgain ==
    /\ CleanupCalled
    /\ \E i \in 1..Len(cleanups) : cleanups[i] >= 1 /\ cleanups'[i] > cleanups[i]

C13_CleanupTwiceSafe ==
    [][/\ CleanupCalled
          => /\ ~ret'.raised
             /\ playback_info_changed_token' = None
             /\ current_session_changed_token' = None
       /\ CleanupCalledAgain => UNCHANGED <<mprisCtl, winCtl>>]_vars

\* C20: over any sequence of on_plugin_helper_ready and on_chat_stop, no
\* controller has cleanup() called on it twice, and once on_chat_stop is the
\* last hook to have run every controller created has had cleanup() called.
C20_EveryControllerCleanedOnce ==
    /\ \A i \in 1..Len(cleanups) : cleanups[i] <= 1
    /\ plugin_pc = "stopped" => \A i \in 1..Len(cleanups) : cleanups[i] = 1

\* ================================ the poll-based controller, stopping
\* The poll-based controller from construction to the end of cleanup(),
\* with the worker thread and the caller of cleanup() scheduled fairly:
\* platform calls, the callback, time.sleep(1) and join(timeout=2) all return.
InitStop == Init /\ variant = "mpris"

NextStop ==
    \/ PluginCreate
    \/ PluginEmit
    \/ PluginRegister
    \/ PluginChatStop
    \/ InitPlayer
    \/ WorkerExit
    \/ PollBegin
    \/ PollRead
    \/ PollAborted
    \/ CallbackReturn
    \/ Sleep
    \/ MprisChange
    \/ CleanupSetStop
    \/ CleanupJoin
    \/ CleanupLoopStop

WorkerFairness ==
    /\ WF_vars(InitPlayer)
    /\ WF_vars(WorkerExit)
    /\ WF_vars(PollBegin)
    /\ WF_vars(PollRead)
    /\ WF_vars(CallbackReturn)
    /\ WF_vars(Sleep)

CleanupFairness ==
    /\ WF_vars(CleanupJoin)
    /\ WF_vars(CleanupLoopStop)

SpecStop == InitStop /\ [][NextStop]_vars /\ WorkerFairness /\ CleanupFairness

\* C14: once cleanup() has set the stop flag the worker thread leaves its
\* loop and ends, and cleanup() itself returns once it has started waiting,
\* whether or not the worker has ended by then.
WorkerEnded == wpc \in {"exited", "crashed"}

C14_StopEndsWorkerAndCleanupReturns ==
    /\ (variant = "mpris" /\ _stop_event) ~> WorkerEnded
    /\ (variant = "mpris" /\ cpc = "joining") ~> (cpc = "done")

C14_Witness ==
    /\ variant = "mpris"
    /\ _stop_event
    /\ wpc = "exited"
    /\ cpc = "done"
    /\ Len(reads) >= 1

C16_ReconcilesOnEverySessionChange ==
    [][(variant = "windows" /\ "sc" \in pending /\ "sc" \notin pending'
          /\ mgr_session # current_session)
         => hpc'["sc"] = "read"]_vars

\* ============================== one adapter operation on given answers
\* The state read of each adapter and the Windows transport commands,
\* applied once to a session handle and to the answers the platform gives.
MprisReadRaws ==
    [fails : BOOLEAN,
     artist : {None, Some(<<>>), Some(<<"A", "B">>)},
     album : {None, Some("Al")},
     title : {None, Some("T1")},
     shuffle : {None} \cup {Some([declared |-> d, actual |-> a, value |-> v]) :
                               d \in {"b", "d"}, a \in {"b", "d"}, v \in {0, 1}},
     loop_status : {None, Some("None"), Some("Track"), Some("Playlist")},
     playback_status : {"Playing"}]

WinRawTrack ==
    [has_props |-> TRUE, artist |-> "A", subtitle |-> "", title |-> "T1",
     is_shuffle_active |-> Some(FALSE), auto_repeat_mode |-> Some("TRACK"),
     playback_status |-> "PLAYING"]
WinReadRaws == WinRaws \cup {WinRawTrack}

Handles == {None, Some(1)}

\* raw: what an MPRIS player answers, win: what a Windows session answers,
\* fails: a platform read on the handle fails; accept1, accept2: the
\* platform's answers to the first and second command issued.
ReadInputs ==
    {[NoArgs EXCEPT !.fn = "read", !.adapter = "mpris", !.handle = h,
                    !.raw = r, !.fails = r.fails] :
       h \in Handles, r \in MprisReadRaws}
    \cup {[NoArgs EXCEPT !.fn = "read", !.adapter = "windows", !.handle = h,
                         !.win = r, !.fails = f] :
            h \in Handles, r \in WinReadRaws, f \in BOOLEAN}
    \cup {[NoArgs EXCEPT !.fn = "read"]}

CommandInputs ==
    {[NoArgs EXCEPT !.fn = "command", !.adapter = "windows", !.op = o,
                    !.handle = h, !.accept1 = a1, !.accept2 = a2] :
       o \in Ops, h \in Handles, a1 \in BOOLEAN, a2 \in BOOLEAN}

\* The state read of one adapter: its value, or the exception that leaves it.
ReadState(adapter, handle, raw, win, fails) ==
    CASE adapter = "mpris" ->
           [done |-> TRUE, raised |-> FALSE,
            value |-> Some(_get_media_playback_state(handle, raw)),
            issued |-> <<>>]
      [] adapter = "windows" ->
           IF WmsaReadRaises(handle, fails)
           THEN [done |-> TRUE, raised |-> TRUE, value |-> None,
                 issued |-> <<>>]
           ELSE [done |-> TRUE, raised |-> FALSE,
                 value |-> Some(get_wmsa_state(handle, win)), issued |-> <<>>]
      [] OTHER ->
           [done |-> TRUE, raised |-> FALSE,
            value |-> Some(default_media_playback_state), issued |-> <<>>]

\* get_platform_controller: the class constructed for platform.system(), or
\* NotImplementedError with nothing constructed; inspections lists the calls
\* made to find out the host OS.
OsNames == {"Linux", "Windows", "Darwin", "FreeBSD", "Java", "linux", ""}

FactoryInputs == {[NoArgs EXCEPT !.fn = "factory", !.os_name = n] : n \in OsNames}

get_platform_controller_else_linux(os_name) ==
    [done |-> TRUE, issued |-> <<"platform.system">>, raised |-> FALSE,
     value |-> Some(CASE os_name = "Windows" -> "WindowsMediaController"
                      [] os_name = "Darwin" -> "MacOSMediaController"
                      [] OTHER -> "MPRISController")]
get_platform_controller(os_name) ==
    IF os_name \in {"Linux", "Windows", "Darwin"}
    THEN [done |-> TRUE, issued |-> <<"platform.system">>, raised |-> FALSE,
          value |-> Some(CASE os_name = "Linux" -> "MPRISController"
                           [] os_name = "Windows" -> "WindowsMediaController"
                           [] os_name = "Darwin" -> "MacOSMediaController")]
    ELSE [done |-> TRUE, issued |-> <<"platform.system">>, raised |-> TRUE,
          value |-> None]

DEFAULT_MEDIA_CHANGE_COMMENT_CHANCE == 10

\* "get_plugin_settings(...) or self.DEFAULT_MEDIA_CHANGE_COMMENT_CHANCE"
ChanceOrDefault(setting) ==
    IF setting = None \/ setting = Some(0)
    THEN DEFAULT_MEDIA_CHANGE_COMMENT_CHANCE ELSE setting[1]

\* media_player_should_reply_handler: Some(TRUE) / Some(FALSE) for an
\* unprocessed MediaPlaybackStateChangedEvent, None (no opinion) otherwise.
\* setting is the stored media_change_assistant_comments_chance, None when
\* unset; random is random.random() * 100, in whole points.
media_player_should_reply_handler(is_media, processed_by_us_at, setting, random) ==
    IF is_media /\ processed_by_us_at = 0
    THEN LET chance == ChanceOrDefault(setting) IN
         IF chance = 0 THEN Some(FALSE)
         ELSE IF random < chance THEN Some(TRUE)
         ELSE Some(FALSE)
    ELSE None

ReplyInputs ==
    {[NoArgs EXCEPT !.fn = "should_reply", !.is_media_event = m,
                    !.processed_by_us_at = p, !.setting = c, !.random = r] :
       m \in BOOLEAN, p \in {0, 1},
       c \in {None, Some(0), Some(5), Some(10), Some(100)},
       r \in {0, 4, 9, 10, 50, 99}}

\* ------------------------------------- CurrentMediaPlaybackState projection
MaxEvents == 3     \* events handed to the projection in one run

\* States a MediaPlaybackStateChangedEvent can carry.
ProjectionStates ==
    {default_media_playback_state,
     _get_media_playback_state(Some("player"), RawPlaying),
     _get_media_playback_state(Some("player"), RawPaused)}

\* Events the host hands to process(): the plugin's own event class or any
\* other Event, which may happen to carry a new_state as well.
ProjectionEvents ==
    [type : {"MediaPlaybackStateChangedEvent", "Event"},
     new_state : ProjectionStates]

RECURSIVE EventListsUpTo(_)
EventListsUpTo(n) ==
    IF n = 0 THEN {<<>>}
    ELSE LET shorter == EventListsUpTo(n - 1) IN
         shorter \cup {Append(l, e) : l \in {m \in shorter : Len(m) = n - 1},
                                      e \in ProjectionEvents}

get_default_state ==
    [event |-> "MediaState",
     media_playback_state |-> default_media_playback_state]

process_any_event(state, event) ==
    [state |-> [state EXCEPT !.media_playback_state = event.new_state],
     projected_events |-> <<[event |-> "MediaPlaybackStateChanged",
                             new_state |-> event.new_state]>>]

\* process(self, event): the new self.state and the returned list
process(state, event) ==
    IF event.type = "MediaPlaybackStateChangedEvent"
    THEN [state |-> [state EXCEPT !.media_playback_state = event.new_state],
          projected_events |-> <<[event |-> "MediaPlaybackStateChanged",
                                  new_state |-> event.new_state]>>]
    ELSE [state |-> state, projected_events |-> <<>>]

\* The projection processes the events one after the other, starting from
\* get_default_state(); trail[i] is self.state after the i-th event and
\* projected[i] the list process() returned for it.
RECURSIVE ProcessEvents(_, _, _, _)
ProcessEvents(state, events, trail, projected) ==
    IF events = <<>>
    THEN [state |-> state, trail |-> trail, projected |-> projected]
    ELSE LET p == process(state, Head(events)) IN
         ProcessEvents(p.state, Tail(events), Append(trail, p.state),
                       Append(projected, p.projected_events))

ProjectionInputs ==
    {[NoArgs EXCEPT !.fn = "projection", !.events = l] :
       l \in EventListsUpTo(MaxEvents)}

InitCalls ==
    /\ variant = "placeholder"
    /\ plugin_pc = "start"
    /\ emitted = None
    /\ on_media_playback_info_changed = FALSE
    /\ cbLog = <<>>
    /\ ret = NoRet
    /\ ncalls = 0
    /\ services = <<>>
    /\ mpris_raw = RawBroken
    /\ _player_iface = None
    /\ _last_state = None
    /\ _stop_event = FALSE
    /\ _loop_stopping = FALSE
    /\ wpc = "unstarted"
    /\ w_state = None
    /\ cpc = "none"
    /\ cmdQueue = <<>>
    /\ started = <<>>
    /\ direct = <<>>
    /\ reads = <<>>
    /\ cb_always = TRUE
    /\ mgr_session = None
    /\ win_raw = WinRawNoProps
    /\ current_session = None
    /\ playback_info_changed_token = None
    /\ current_session_changed_token = None
    /\ last_media_playback_state = FieldObject
    /\ subs = {}
    /\ pending = {}
    /\ nnotify = 0
    /\ hpc = [t \in HandlerThreads |-> "idle"]
    /\ h_state = [t \in HandlerThreads |-> None]
    /\ _media_controller = None
    /\ cleanups = <<>>
    /\ args \in ReadInputs \cup CommandInputs \cup FactoryInputs
                  \cup ReplyInputs \cup ProjectionInputs
    /\ outcome = NoOutcome

\* _get_media_playback_state / get_wmsa_state / the placeholder's getter
ApplyReadState ==
    /\ args.fn = "read"
    /\ ~outcome.done
    /\ outcome' = ReadState(args.adapter, args.handle, args.raw, args.win,
                            args.fails)
    /\ UNCHANGED <<variant, args, lifeVars, pluginVars, cbLog, callVars,
                   mprisVars, winVars>>

\* play / pause / stop / prev_track / next_track of WindowsMediaController
ApplyCommand ==
    /\ args.fn = "command"
    /\ ~outcome.done
    /\ LET r == WinCommand(args.op, args.handle, args.accept1, args.accept2)
       IN outcome' = [done |-> TRUE, raised |-> r.raised, value |-> r.value,
                      issued |-> WinIssued(args.op, args.handle,
                                           args.accept1, args.accept2)]
    /\ UNCHANGED <<variant, args, lifeVars, pluginVars, cbLog, callVars,
                   mprisVars, winVars>>

\* get_platform_controller()
ApplyFactory ==
    /\ args.fn = "factory"
    /\ ~outcome.done
    /\ outcome' = get_platform_controller(args.os_name)
    /\ UNCHANGED <<variant, args, lifeVars, pluginVars, cbLog, callVars,
                   mprisVars, winVars>>

\* media_player_should_reply_handler(helper, event, projected_states)
ApplyShouldReply ==
    /\ args.fn = "should_reply"
    /\ ~outcome.done
    /\ outcome' = [done |-> TRUE, raised |-> FALSE, issued |-> <<>>,
                   value |-> media_player_should_reply_handler(
                                 args.is_media_event, args.processed_by_us_at,
                                 args.setting, args.random)]
    /\ UNCHANGED <<variant, args, lifeVars, pluginVars, cbLog, callVars,
                   mprisVars, winVars>>

\* The host feeds the events to the projection, one process() call each.
ApplyProjection ==
    /\ args.fn = "projection"
    /\ ~outcome.done
    /\ LET r == ProcessEvents(get_default_state, args.events, <<>>, <<>>) IN
         outcome' = [done |-> TRUE, raised |-> FALSE,
                     issued |-> r.projected,
                     value |-> [state |-> r.state, trail |-> r.trail]]
    /\ UNCHANGED <<variant, args, lifeVars, pluginVars, cbLog, callVars,
                   mprisVars, winVars>>

NextCalls ==
    \/ ApplyReadState
    \/ ApplyCommand
    \/ ApplyFactory
    \/ ApplyShouldReply
    \/ ApplyProjection

SpecCalls == InitCalls /\ [][NextCalls]_vars

\* ============================ the plugin on the controller of the factory
\* The plugin imports get_platform_controller from MediaControllers.py, where
\* the names MPRISController and MacOSMediaController are bound to the stub
\* classes of that module; the poll-based class of MPRISController.py is not
\* imported there.  On Linux media players may be present on the session
\* bus and report any of the snapshots.
PlaceholderPlatforms == {"Linux", "Darwin"}

ControllerVariantPollBased(class) ==
    CASE class = "WindowsMediaController" -> "windows"
      [] class = "MPRISController" -> "mpris"
      [] OTHER -> "placeholder"
ControllerVariant(class) ==
    CASE class = "WindowsMediaController" -> "windows"
      [] class = "MPRISController" -> "placeholder"
      [] OTHER -> "placeholder"

InitPlatform ==
    /\ args \in {a \in FactoryInputs : a.os_name \in PlaceholderPlatforms}
    /\ outcome = NoOutcome
    /\ variant = ControllerVariant(get_platform_controller(args.os_name).value[1])
    /\ plugin_pc = "start"
    /\ emitted = None
    /\ on_media_playback_info_changed = FALSE
    /\ cbLog = <<>>
    /\ ret = NoRet
    /\ ncalls = 0
    /\ services \in (IF args.os_name = "Linux" THEN ServiceLists ELSE {<<>>})
    /\ mpris_raw \in (IF args.os_name = "Linux" THEN MprisRaws ELSE {RawBroken})
    /\ _player_iface = None
    /\ _last_state = None
    /\ _stop_event = FALSE
    /\ _loop_stopping = FALSE
    /\ wpc = "unstarted"
    /\ w_state = None
    /\ cpc = "none"
    /\ cmdQueue = <<>>
    /\ started = <<>>
    /\ direct = <<>>
    /\ reads = <<>>
    /\ cb_always = TRUE
    /\ mgr_session = None
    /\ win_raw = WinRawNoProps
    /\ current_session = None
    /\ playback_info_changed_token = None
    /\ current_session_changed_token = None
    /\ last_media_playback_state = FieldObject
    /\ subs = {}
    /\ pending = {}
    /\ nnotify = 0
    /\ hpc = [t \in HandlerThreads |-> "idle"]
    /\ h_state = [t \in HandlerThreads |-> None]
    /\ _media_controller = None
    /\ cleanups = <<>>

\* A control operation on a controller the factory has returned.
ReturnedControllerControl ==
    /\ cleanups # <<>>
    /\ PlaceholderControl

\* get_media_playback_state() on a controller the factory has returned.
ReturnedControllerGet ==
    /\ cleanups # <<>>
    /\ PlaceholderGet

\* "def cleanup(self): pass" of the stub classes, called by any holder
PlaceholderCleanup ==
    /\ variant = "placeholder"
    /\ Constructed
    /\ ncalls < MaxCalls
    /\ ret' = CleanupReturned
    /\ ncalls' = ncalls + 1
    /\ UNCHANGED <<variant, applyVars, lifeVars, pluginVars, cbLog, mprisVars, winVars>>

\* cleanup() on a controller the factory has returned.
ReturnedControllerCleanup ==
    /\ cleanups # <<>>
    /\ PlaceholderCleanup

\* The hooks run as whole handlers in any order, with the callers of the
\* controller in between.
NextPlatform ==
    \/ OnPluginHelperReady
    \/ OnChatStop
    \/ ReturnedControllerControl
    \/ ReturnedControllerGet
    \/ ReturnedControllerCleanup

SpecPlatform == InitPlatform /\ [][NextPlatform]_vars

\* C17: a state read with no session handle, or on a handle whose platform
\* reads fail, returns the default state and raises nothing, on every adapter.
C17_ReadNeverRaises ==
    (args.fn = "read" /\ outcome.done /\ (args.handle = None \/ args.fails))
      => /\ ~outcome.raised
         /\ outcome.value = Some(default_media_playback_state)

\* C18: stop() on a Windows session issues try_stop_async and, only when
\* that was accepted, try_pause_async after it; it returns False with no
\* pause issued when stop was refused, and the answer to pause otherwise.
C18_StopThenPauseIfAccepted ==
    (args.fn = "command" /\ outcome.done /\ args.op = "stop"
       /\ args.handle # None)
      => /\ ~outcome.raised
         /\ IF args.accept1
            THEN /\ outcome.issued = <<"try_stop_async", "try_pause_async">>
                 /\ outcome.value = Some(args.accept2)
            ELSE /\ outcome.issued = <<"try_stop_async">>
                 /\ outcome.value = Some(FALSE)

C18_Witness ==
    /\ args.fn = "command"
    /\ args.op = "stop"
    /\ args.handle # None
    /\ args.accept1
    /\ ~args.accept2
    /\ outcome.done
    /\ outcome.issued = <<"try_stop_async", "try_pause_async">>
    /\ outcome.value = Some(FALSE)

\* C19: an iteration of the poll loop on a controller without a session
\* goes straight to its sleep: _last_state is unchanged, nothing is read
\* from the platform and the callback is not invoked.
C19_PollNoOpWithoutSession ==
    [][(variant = "mpris" /\ _player_iface = None /\ wpc = "check"
          /\ ~_stop_event /\ wpc' # wpc)
         => /\ wpc' = "sleep"
            /\ UNCHANGED <<_last_state, reads, cbLog, w_state>>]_vars

\* A poll has run without a session while the plugin's callback was set.
C19_Witness ==
    /\ variant = "mpris"
    /\ _player_iface = None
    /\ plugin_pc = "ready"
    /\ on_media_playback_info_changed
    /\ wpc = "sleep"
    /\ _last_state = None
    /\ reads = <<>>
    /\ cbLog = <<>>

\* C21: the factory raises NotImplementedError and constructs nothing for
\* every OS name but Linux, Windows and Darwin, returns the class of that OS
\* for these three, and asks for the OS name exactly once.
C21_FactoryByPlatform ==
    (args.fn = "factory" /\ outcome.done)
      => /\ outcome.issued = <<"platform.system">>
         /\ args.os_name = "Linux"
              => (~outcome.raised /\ outcome.value = Some("MPRISController"))
         /\ args.os_name = "Windows"
              => (~outcome.raised
                    /\ outcome.value = Some("WindowsMediaController"))
         /\ args.os_name = "Darwin"
              => (~outcome.raised
                    /\ outcome.value = Some("MacOSMediaController"))
         /\ args.os_name \notin {"Linux", "Windows", "Darwin"}
              => (outcome.raised /\ outcome.value = None)

C21_Witness ==
    /\ args.fn = "factory"
    /\ args.os_name = "FreeBSD"
    /\ outcome.done
    /\ outcome.raised
    /\ outcome.value = None

\* C22: on every adapter a read that succeeds gives auto_repeat_mode true
\* when the session's repeat scope is Track, false for any other scope, and
\* none when the session has no repeat scope.
ReadSucceeds ==
    /\ args.fn = "read"
    /\ outcome.done
    /\ args.handle # None
    /\ CASE args.adapter = "mpris" -> ~ReadRaises(args.raw)
         [] args.adapter = "windows" -> ~args.fails /\ args.win.has_props
         [] OTHER -> FALSE

RepeatScope ==
    IF args.adapter = "mpris" THEN args.raw.loop_status
    ELSE args.win.auto_repeat_mode

\* The Windows member TRACK is the integer 1 and compares equal to True.
IsTrue(x) == x = Some(TRUE) \/ x = EnumMember("TRACK")

C22_RepeatNormalization ==
    ReadSucceeds
      => /\ ~outcome.raised
         /\ LET r == outcome.value[1].auto_repeat_mode IN
            IF RepeatScope = None THEN r = None
            ELSE IF RepeatScope[1] \in {"Track", "TRACK"} THEN IsTrue(r)
            ELSE r = Some(FALSE)

\* C23: on the poll-based adapter a shuffle value that arrives as a number
\* 1 or 0 is read as is_shuffle_active true or false, and a player without
\* the property gives is_shuffle_active none in an otherwise complete state.
MprisOtherReadsFine ==
    /\ args.fn = "read"
    /\ outcome.done
    /\ args.adapter = "mpris"
    /\ args.handle # None
    /\ ~args.raw.fails
    /\ args.raw.artist # None
    /\ args.raw.album # None
    /\ args.raw.title # None

C23_ShuffleCoercion ==
    MprisOtherReadsFine
      => /\ ~outcome.raised
         /\ args.raw.shuffle = None
              => /\ outcome.value[1].is_shuffle_active = None
                 /\ outcome.value[1].title = args.raw.title
         /\ (args.raw.shuffle # None /\ args.raw.shuffle[1].declared = "d"
               /\ args.raw.shuffle[1].actual = "d")
              => outcome.value[1].is_shuffle_active =
                   Some(args.raw.shuffle[1].value = 1)

\* C24: with media_change_assistant_comments_chance set to 0 the
\* should-reply handler answers False, never True, for every unprocessed
\* MediaPlaybackStateChangedEvent.
C24_ChanceZeroNeverReplies ==
    (args.fn = "should_reply" /\ outcome.done /\ args.is_media_event
       /\ args.processed_by_us_at = 0 /\ args.setting = Some(0))
      => outcome.value = Some(FALSE)

C26_SessionWrittenOnlyByDiscovery ==
    [][variant = "mpris"
         => /\ _player_iface' # _player_iface => wpc = "init"
            /\ (_player_iface = None /\ wpc \notin {"unstarted", "init"})
                 => /\ _player_iface' = None
                    /\ cbLog' = cbLog
                    /\ (ncalls' # ncalls /\ ret'.kind = "control")
                         => ret'.value = Some(FALSE)]_vars

\* A controller without a session has polled, refused a control operation
\* and been cleaned up, still without a session.
C26_Witness ==
    /\ variant = "mpris"
    /\ _player_iface = None
    /\ wpc = "exited"
    /\ plugin_pc = "stopped"
    /\ ret.kind = "control"
    /\ ret.value = Some(FALSE)
    /\ ncalls = 2
    /\ cbLog = <<>>

\* C27: a poll whose platform read fails while the cache holds a state
\* other than the default caches the default state and invokes the callback
\* with it; a poll that then reads the player successfully caches what it
\* read and invokes the callback again.
PollReadStep == variant = "mpris" /\ wpc = "reading" /\ wpc' \in {"cb", "sleep"}

Notified(state) ==
    on_media_playback_info_changed
      => (wpc' = "cb" /\ cbLog' = Append(cbLog, state))

C27_FailedReadResetsToDefault ==
    [][PollReadStep
         => /\ (ReadRaises(mpris_raw) /\ _last_state # None
                  /\ _last_state # Some(default_media_playback_state))
                 => /\ _last_state' = Some(default_media_playback_state)
                    /\ Notified(default_media_playback_state)
            /\ (~ReadRaises(mpris_raw)
                  /\ _last_state = Some(default_media_playback_state))
                 => /\ _last_state' # _last_state
                    /\ _last_state' = Some(reads'[Len(reads')])
                    /\ Notified(reads'[Len(reads')])]_vars

\* The callback is running with the default state after a read that
\* followed a successful one.
C27_Witness ==
    /\ variant = "mpris"
    /\ wpc = "cb"
    /\ w_state = Some(default_media_playback_state)
    /\ Len(reads) >= 2
    /\ reads[Len(reads) - 1] # default_media_playback_state
    /\ reads[Len(reads)] = default_media_playback_state
    /\ _last_state = Some(default_media_playback_state)
    /\ cbLog # <<>>
    /\ cbLog[Len(cbLog)] = default_media_playback_state

\* C28: with the stop flag set the worker begins no poll: the loop test
\* only ends the thread, a read is entered from nowhere, and a callback is
\* invoked only out of the read that was already running, so at most once;
\* a thread that has ended invokes none.
C28_NoNewPollAfterStop ==
    [][(variant = "mpris" /\ _stop_event)
         => /\ wpc = "check" => wpc' \in {"check", "exited"}
            /\ wpc' = "reading" => wpc = "reading"
            /\ Len(cbLog') > Len(cbLog)
                 => (wpc = "reading" /\ wpc' = "cb"
                       /\ Len(cbLog') = Len(cbLog) + 1)
            /\ wpc \in {"exited", "crashed"}
                 => (wpc' = wpc /\ cbLog' = cbLog)]_vars

\* The worker has exited on the stop flag after a single poll and callback.
C28_Witness ==
    /\ variant = "mpris"
    /\ _stop_event
    /\ wpc = "exited"
    /\ Len(reads) = 1
    /\ Len(cbLog) = 1
    /\ _player_iface # None

\* The commands accepted so far, in the order of their acceptance: those
\* already started on the loop followed by those still waiting for it.
AcceptedCommands == started \o cmdQueue

\* The worker enters one more iteration of its poll loop.
IterationBegins == wpc = "check" /\ wpc' \in {"reading", "sleep"}

\* C29: a command whose control operation returned true with the stop flag
\* unset is handed to the worker's loop behind the commands accepted before
\* it; every iteration the worker enters afterwards starts all commands
\* still waiting, and commands are started in the order of acceptance, none
\* dropped or overtaken.
C29_AcceptedCommandsStartInOrder ==
    [][variant = "mpris"
         => /\ (~_stop_event /\ ncalls' # ncalls /\ ret'.kind = "control"
                   /\ ret'.value = Some(TRUE))
                 => (/\ cmdQueue' = Append(cmdQueue, ncalls')
                     /\ started' = started)
            /\ IterationBegins
                 => (cmdQueue' = <<>> /\ started' = AcceptedCommands)
            /\ \/ started' \o cmdQueue' = AcceptedCommands
               \/ started' \o cmdQueue' = Append(AcceptedCommands, ncalls')
            /\ Len(started') >= Len(started)]_vars

\* Two accepted commands have both been started, first accepted first.
C29_Witness ==
    /\ variant = "mpris"
    /\ ~_stop_event
    /\ started = <<1, 2>>
    /\ cmdQueue = <<>>
    /\ direct = <<>>

\* The positions of the MediaPlaybackStateChangedEvents in a list of events.
MediaEventPositions(events) ==
    {i \in 1..Len(events) : events[i].type = "MediaPlaybackStateChangedEvent"}

\* The largest member of a non-empty set of positions.
LastPosition(positions) ==
    CHOOSE i \in positions : \A j \in positions : j <= i

\* C30: after the projection has processed a sequence of events its
\* media_playback_state is the new_state of the last
\* MediaPlaybackStateChangedEvent of the sequence, the default state if there
\* was none; each such event yields exactly one projected
\* MediaPlaybackStateChanged event carrying its new_state, and every other
\* event leaves the projection state as it was and yields none.
C30_ProjectionFollowsLastMediaEvent ==
    (args.fn = "projection" /\ outcome.done)
        => LET events == args.events
               media == MediaEventPositions(events)
               before(i) == IF i = 1 THEN get_default_state
                            ELSE outcome.value.trail[i - 1]
           IN  /\ outcome.value.state.event = "MediaState"
               /\ outcome.value.state.media_playback_state =
                      IF media = {} THEN default_media_playback_state
                      ELSE events[LastPosition(media)].new_state
               /\ Len(outcome.issued) = Len(events)
               /\ Len(outcome.value.trail) = Len(events)
               /\ \A i \in 1..Len(events) :
                      IF i \in media
                      THEN outcome.issued[i] =
                             <<[event |-> "MediaPlaybackStateChanged",
                                new_state |-> events[i].new_state]>>
                      ELSE /\ outcome.issued[i] = <<>>
                           /\ outcome.value.trail[i] = before(i)

\* A run in which a media event is followed by another event that carries a
\* different new_state, and a second media event changed the state before.
C30_Witness ==
    /\ args.fn = "projection"
    /\ outcome.done
    /\ Len(args.events) = 3
    /\ args.events[1].type = "MediaPlaybackStateChangedEvent"
    /\ args.events[2].type = "MediaPlaybackStateChangedEvent"
    /\ args.events[3].type = "Event"
    /\ args.events[1].new_state # args.events[2].new_state
    /\ args.events[3].new_state # args.events[2].new_state
    /\ outcome.value.state.media_playback_state = args.events[2].new_state

\* C31: on Linux and on Darwin the controller the factory returns is a
\* placeholder: whatever operations were called on it, a control operation
\* has returned false, get_media_playback_state() has returned the default
\* state, neither has raised, no background worker has been started, nothing
\* is subscribed at the platform and the change callback was never invoked.
C31_PlaceholderOnLinuxAndDarwin ==
    args.os_name \in PlaceholderPlatforms
        => /\ ret.kind = "control" => (ret.value = Some(FALSE) /\ ~ret.raised)
           /\ ret.kind = "get"
                => (ret.value = Some(default_media_playback_state)
                      /\ ~ret.raised)
           /\ ret.kind = "cleanup" => ~ret.raised
           /\ emitted \in {None, Some(default_media_playback_state)}
           /\ wpc = "unstarted"
           /\ cmdQueue = <<>> /\ started = <<>> /\ direct = <<>>
           /\ subs = {}
           /\ cbLog = <<>>
           /\ \A t \in HandlerThreads : hpc[t] = "idle"

\* On Linux, with a player on the bus reporting "Playing", a second
\* controller is held with the callback registered, and two operations have
\* been called, the last a control operation.
C31_Witness ==
    /\ args.os_name = "Linux"
    /\ services # <<>>
    /\ mpris_raw = RawPlaying
    /\ emitted = Some(default_media_playback_state)
    /\ Len(cleanups) = 2
    /\ _media_controller # None
    /\ on_media_playback_info_changed
    /\ ncalls = 2
    /\ ret.kind = "control"
    /\ ret.value = Some(FALSE)

====
